---- MODULE Spec2Model ----
(***************************************************************************)
(* A model of the SPDY header compression core (src/compression.go) and of *)
(* the SPDY/2 NOOP frame codec (src/spdy2/frames/noop.go).                 *)
(*                                                                         *)
(* Bytes are the naturals 0..255 and byte strings are sequences of them.   *)
(* A zlib stream is modelled by what it does for its user: the compressed  *)
(* bytes are a sequence of units, one "hdr" unit (the zlib header with the *)
(* checksum of the preset dictionary) and one "seg" unit per sync-flushed  *)
(* stretch of the stream.  A seg unit carries the bytes it inflates to and *)
(* its position k in the stream: DEFLATE output refers back into the       *)
(* history of the stream, so a stretch inflates only in a reader that has  *)
(* inflated exactly the k stretches before it.                             *)
(***************************************************************************)
EXTENDS Integers, Sequences, FiniteSets, TLC

\* Bounds of the model.
MaxCompress == 2
MaxDecompress == 2
MaxWrites == 2
Huge == 268435456

\* Program constants.
MAX_FRAME_SIZE == 16777215
NOOP == 5

Writers == {"w1", "w2"}
Readers == {"r1", "r2"}
\* The versions a Compressor and a Decompressor are made with: SPDY/2,
\* SPDY/3 and one that is not supported.
Versions == {2, 3, 4}

Min(a, b) == IF a < b THEN a ELSE b

---------------------------------------------------------------------------
(* Wire codec: big-endian integers.                                        *)

(* Integers of the model are exact up to Huge, which is more than any      *)
(* length the budget admits; every greater value of a field is kept as     *)
(* Huge.                                                                   *)
RECURSIVE BytesToUint(_)
BytesToUint(b) ==
    IF b = <<>> THEN 0
    ELSE LET hi == BytesToUint(SubSeq(b, 1, Len(b) - 1))
         IN IF hi > Huge \div 256 THEN Huge
            ELSE Min(hi * 256 + b[Len(b)], Huge)

bytesToUint16(b) == BytesToUint(SubSeq(b, 1, 2))

bytesToUint32(b) == BytesToUint(SubSeq(b, 1, 4))

BytesToUint24(b) == BytesToUint(SubSeq(b, 1, 3))

RECURSIVE UintToBytes(_, _)
UintToBytes(n, w) ==
    IF w = 0 THEN <<>>
    ELSE Append(UintToBytes(n \div 256, w - 1), n % 256)

\* The width of the count and length fields of a header block.
Width(version) == IF version = 2 THEN 2 ELSE 4

\* The widths Go's int has, by the platform the package is built for.
IntSizes == {32, 64}

VARIABLE intSize    \* the width of int in this build

(* int(x) for the uint32 x of four bytes where int has 32 bits: a value    *)
(* from 2^31 on becomes x - 2^32.                                          *)
Int32(b) ==
    IF b[1] < 128 THEN bytesToUint32(b)
    ELSE ((((b[1] - 128) * 256 + b[2]) * 256 + b[3]) * 256 + b[4] - 1073741824)
         - 1073741824

\* The decoder Decompress picks for its 2- or 4-byte chunk: the field as
\* an int.
dechunk(version, b) ==
    IF version = 2 THEN bytesToUint16(b)
    ELSE IF intSize = 32 THEN Int32(b)
    ELSE bytesToUint32(b)

(* a - n in int, for a budget a and a length n that passed the check       *)
(* n <= a: the difference of a negative n wraps around where it exceeds    *)
(* 2^31 - 1.                                                               *)
SubInt(a, n) ==
    IF n < 0 /\ a > 2147483647 + n
    THEN (a - 2147483647 - 1) - (n + 2147483647 + 1)
    ELSE a - n

---------------------------------------------------------------------------
(* Header blocks.  A block in wire form is                                 *)
(*   <count> (<name_len> name <value_len> value)*                          *)
(* with fields of Width(version) bytes.                                    *)

RECURSIVE EncodePairs(_, _)
EncodePairs(version, pairs) ==
    IF pairs = <<>> THEN <<>>
    ELSE LET p == Head(pairs)
         IN UintToBytes(Len(p[1]), Width(version)) \o p[1]
            \o UintToBytes(Len(p[2]), Width(version)) \o p[2]
            \o EncodePairs(version, Tail(pairs))

EncodeBlock(version, pairs) ==
    UintToBytes(Len(pairs), Width(version)) \o EncodePairs(version, pairs)

(* A decoded string is kept as its bytes without the trailing NUL bytes, s, *)
(* and the number of trailing NUL bytes, z: a buffer of a declared length  *)
(* of which a read filled only a prefix ends in that many zero bytes.      *)
RECURSIVE StripZ(_)
StripZ(s) ==
    IF s # <<>> /\ s[Len(s)] = 0 THEN StripZ(SubSeq(s, 1, Len(s) - 1)) ELSE s

\* The string of a buffer of n bytes whose first Len(filled) bytes are
\* filled and whose other bytes are zero.
Str(filled, n) == [s |-> StripZ(filled), z |-> n - Len(StripZ(filled))]

(* A list of values is kept as runs [v, c]: the value v, c times in a row, *)
(* no two neighbouring runs with the same v.                               *)
AppendRun(runs, v, c) ==
    IF c = 0 THEN runs
    ELSE IF runs # <<>> /\ runs[Len(runs)].v = v
    THEN [runs EXCEPT ![Len(runs)].c = @ + c]
    ELSE Append(runs, [v |-> v, c |-> c])

\* bytes.Split(values, NUL) of the explicit bytes s: one segment more than
\* there are NUL bytes, appended to runs in order.
RECURSIVE SplitInto(_, _, _)
SplitInto(runs, cur, s) ==
    IF s = <<>> THEN AppendRun(runs, cur, 1)
    ELSE IF Head(s) = 0 THEN SplitInto(AppendRun(runs, cur, 1), <<>>, Tail(s))
    ELSE SplitInto(runs, Append(cur, Head(s)), Tail(s))

\* Header.Add for every segment of a value buffer (filled, then zeros up to
\* n bytes): a Header is a set of [name, vals] entries, one per name.
HeaderValues(h, name) ==
    IF \E e \in h : e.name = name
    THEN (CHOOSE e \in h : e.name = name).vals
    ELSE <<>>

\* An AddSplit that sets the values of the name, dropping those present.
AddSplitSet(h, name, filled, n) ==
    LET new == AppendRun(SplitInto(<<>>, <<>>, filled), <<>>, n - Len(filled))
    IN {e \in h : e.name # name} \cup {[name |-> name, vals |-> new]}

AddSplit(h, name, filled, n) ==
    LET old == HeaderValues(h, name)
        new == AppendRun(SplitInto(old, <<>>, filled), <<>>, n - Len(filled))
    IN {e \in h : e.name # name} \cup {[name |-> name, vals |-> new]}

\* The Header a list of name/value pairs stands for.
RECURSIVE HeaderOf(_, _)
HeaderOf(h, pairs) ==
    IF pairs = <<>> THEN h
    ELSE LET p == Head(pairs)
         IN HeaderOf(AddSplit(h, Str(p[1], Len(p[1])), p[2], Len(p[2])),
                     Tail(pairs))

---------------------------------------------------------------------------
(* Compressed bytes and the byte arrays that hold them.                    *)

HdrUnit(version) == [t |-> "hdr", k |-> version, d |-> <<>>]

SegUnit(k, data) == [t |-> "seg", k |-> k, d |-> data]

(* mem is the sequence of byte arrays allocated so far; a slice (and the   *)
(* contents of a bytes.Buffer) is [arr, len]: the first len units of array *)
(* arr.  arr = 0 is the slice of no array.                                 *)
NoSlice == [arr |-> 0, len |-> 0]

Contents(mm, slice) ==
    IF slice.arr = 0 THEN <<>> ELSE SubSeq(mm[slice.arr], 1, slice.len)

(* bytes.Buffer.Write: the units are appended after the first buf.len      *)
(* units.  The buffer keeps its array when the units fit (the array's      *)
(* bytes after them stay as they were) and moves to a new array when they  *)
(* do not; which one happens depends on byte counts the model does not     *)
(* keep, so grow chooses.  A buffer without an array always allocates.     *)
BufWrite(buf, mm, units, grow) ==
    IF buf.arr = 0 \/ grow
    THEN [buf |-> [arr |-> Len(mm) + 1, len |-> buf.len + Len(units)],
          mem |-> Append(mm, Contents(mm, buf) \o units)]
    ELSE LET a == mm[buf.arr]
             n == buf.len + Len(units)
         IN [buf |-> [arr |-> buf.arr, len |-> n],
             mem |-> [mm EXCEPT ![buf.arr] =
                        SubSeq(a, 1, buf.len) \o units \o SubSeq(a, n + 1, Len(a))]]

\* A Reset that leaves the buffer as it is.
BufResetNot(buf) == buf

\* bytes.Buffer.Reset: the buffer is emptied and keeps its array.
BufReset(buf) == [buf EXCEPT !.len = 0]

---------------------------------------------------------------------------
(* Compressor.                                                             *)

\* NewCompressor: no buffer, no writer.
NewCompressor(version) ==
    [version |-> version, m |-> "", bufNil |-> TRUE, buf |-> NoSlice,
     wNil |-> TRUE, w |-> [wroteHeader |-> FALSE, k |-> 0]]

\* A lock that does not wait: Lock returns whoever holds the mutex.
MutexFreeAlways(m) == TRUE

\* sync.Mutex.Lock returns once no caller holds the mutex.
MutexFree(m) == m = ""

(* zlib.Writer.Write followed by Flush: the zlib header goes out before    *)
(* the first data, and the flush ends the stretch of the stream that holds *)
(* data, so that it inflates without the bytes that follow.                *)
ZWriteFlush(w, version, data) ==
    [w |-> [wroteHeader |-> TRUE, k |-> w.k + 1],
     units |-> (IF w.wroteHeader THEN <<>> ELSE <<HdrUnit(version)>>)
               \o <<SegUnit(w.k, data)>>]

(* The body of Compress, between Lock and the deferred Unlock.  The result *)
(* is the compressor and the arrays after the call and what the call       *)
(* returns: kind "ok" with the slice c.buf.Bytes(), kind "err" with the    *)
(* error, or kind "panic" (a nil *zlib.Writer is dereferenced).            *)
CompressBody(cc, mm, data, grow) ==
    LET fresh == cc.bufNil
        supported == cc.version \in {2, 3}
        c1 == IF fresh
              THEN [cc EXCEPT !.bufNil = FALSE, !.buf = NoSlice,
                              !.wNil = ~supported]
              ELSE [cc EXCEPT !.buf = BufReset(cc.buf)]
    IN IF fresh /\ ~supported
       THEN [c |-> c1, mem |-> mm, kind |-> "err",
             err |-> "spdy: Version not supported.", slice |-> NoSlice]
       ELSE IF c1.wNil
       THEN [c |-> c1, mem |-> mm, kind |-> "panic",
             err |-> "nil pointer dereference", slice |-> NoSlice]
       ELSE LET z == ZWriteFlush(c1.w, c1.version, data)
                b == BufWrite(c1.buf, mm, z.units, grow)
            IN [c |-> [c1 EXCEPT !.w = z.w, !.buf = b.buf], mem |-> b.mem,
                kind |-> "ok", err |-> "", slice |-> b.buf]

---------------------------------------------------------------------------
(* Decompressor.                                                           *)

\* The zlib reader d.out: k stretches inflated so far, the inflated bytes
\* not yet read, and the error the reader has met, which it keeps.
NoReader == [k |-> 0, toRead |-> <<>>, err |-> ""]

\* NewDecompressor: no input buffer, no reader.
NewDecompressor(version) ==
    [version |-> version, m |-> "", inNil |-> TRUE, in |-> <<>>,
     outNil |-> TRUE, out |-> NoReader]

(* zlib.NewReaderDict(d.in, dictionary): reads the zlib header from the    *)
(* input and compares the dictionary's checksum; on an error no reader is  *)
(* returned.                                                               *)
ZNewReaderDict(in, version) ==
    IF in = <<>> THEN [err |-> "unexpected EOF", in |-> in]
    ELSE IF Head(in).t # "hdr"
    THEN [err |-> "zlib: invalid header", in |-> Tail(in)]
    ELSE IF Head(in).k # version
    THEN [err |-> "zlib: invalid dictionary", in |-> Tail(in)]
    ELSE [err |-> "", in |-> Tail(in)]

(* d.out.Read(p) with len(p) = n.  The reader hands out inflated bytes it  *)
(* holds, at most n and possibly fewer; when it holds none it inflates the *)
(* next stretch of the input.  An input that has ended or does not inflate *)
(* is an error, and the reader returns that error from then on.  What a    *)
(* read of no bytes does when the reader holds none depends on the zlib    *)
(* release (it returns at once, or it inflates first): zeroOk chooses.     *)
RECURSIVE ZRead(_, _, _, _)
ZRead(in, zr, n, zeroOk) ==
    IF zr.err # "" THEN [in |-> in, zr |-> zr, got |-> <<>>, err |-> zr.err]
    ELSE IF n = 0 /\ zeroOk
    THEN [in |-> in, zr |-> zr, got |-> <<>>, err |-> ""]
    ELSE IF zr.toRead # <<>>
    THEN LET m == Min(n, Len(zr.toRead))
         IN [in |-> in,
             zr |-> [zr EXCEPT !.toRead = SubSeq(@, m + 1, Len(@))],
             got |-> SubSeq(zr.toRead, 1, m), err |-> ""]
    ELSE IF in = <<>>
    THEN [in |-> in, zr |-> [zr EXCEPT !.err = "unexpected EOF"],
          got |-> <<>>, err |-> "unexpected EOF"]
    ELSE IF Head(in).t = "seg" /\ Head(in).k = zr.k
    THEN ZRead(Tail(in), [zr EXCEPT !.k = @ + 1, !.toRead = Head(in).d],
               n, zeroOk)
    ELSE [in |-> Tail(in), zr |-> [zr EXCEPT !.err = "flate: corrupt input"],
          got |-> <<>>, err |-> "flate: corrupt input"]

\* A buffer after a read has filled its first bytes with got.
Fill(buf, got) == got \o SubSeq(buf, Len(got) + 1, Len(buf))

\* A declared length is refused when it exceeds the remaining budget.
OverBounds(length, bounds) == length > bounds

(* What Decompress returns, with the state it leaves: the unread input,    *)
(* the reader, the remaining budget (bounds), the sum of the lengths of    *)
(* the name and value buffers the call allocated (alloc), the last count   *)
(* or length field it read (chunk), whether it went on with a buffer that  *)
(* a read had filled only in part (short) and the name and value buffers   *)
(* it split and added, in order (pairs).                                   *)
DResult(st, kind, err) ==
    [kind |-> kind, err |-> err,
     headers |-> IF kind = "ok" THEN st.headers ELSE {},
     in |-> st.in, zr |-> st.zr, bounds |-> st.bounds, alloc |-> st.alloc,
     chunk |-> st.chunk, short |-> st.short,
     pairs |-> IF kind = "ok" THEN st.pairs ELSE <<>>]

(* One d.out.Read of n bytes: the bytes read (got) and the error (err).    *)
(* Only the error is looked at, never the count Read returns: after a read *)
(* without error the buffer is used as it is.                              *)
ReadN(st, n, zeroOk) ==
    LET r == ZRead(st.in, st.zr, n, zeroOk)
    IN [st EXCEPT !.in = r.in, !.zr = r.zr, !.got = r.got, !.err = r.err,
                  !.short = @ \/ (r.err = "" /\ Len(r.got) < n)]

\* d.out.Read(chunk): chunk keeps the bytes a short read does not fill.
ReadChunk(st, version, zeroOk) ==
    LET s == ReadN(st, Width(version), zeroOk)
    IN [s EXCEPT !.chunk = Fill(@, s.got)]

\* bounds -= length.
Charge(st, length) == [st EXCEPT !.bounds = SubInt(@, length)]

\* make([]byte, length) panics when the length is negative.
MakePanics(length) == length < 0

\* buf := make([]byte, length); d.out.Read(buf).
ReadBuf(st, length, zeroOk) ==
    ReadN([st EXCEPT !.alloc = @ + length, !.len = length], length, zeroOk)

(* The loop of Decompress over the name/value pairs, from pair i on        *)
(* (lines 90-135), one operator per read.                                  *)
RECURSIVE ReadPairs(_, _, _, _, _)
RECURSIVE PairName(_, _, _, _, _)
RECURSIVE PairValueLength(_, _, _, _, _)
RECURSIVE PairValue(_, _, _, _, _)
RECURSIVE PairAdd(_, _, _, _, _)

\* Lines 90-96: the name's length is read.
ReadPairs(st, version, i, num, zeroOk) ==
    IF i >= num THEN DResult(st, "ok", "")
    ELSE PairName(ReadChunk(st, version, zeroOk), version, i, num, zeroOk)

\* Lines 97-108: the name's length is checked and the name is read.
PairName(st, version, i, num, zeroOk) ==
    IF st.err # "" THEN DResult(st, "err", st.err)
    ELSE IF OverBounds(dechunk(version, st.chunk), st.bounds)
    THEN DResult(st, "err", "Error: Incorrect header name length.")
    ELSE IF MakePanics(dechunk(version, st.chunk))
    THEN DResult(Charge(st, dechunk(version, st.chunk)), "panic",
                 "runtime error: makeslice: len out of range")
    ELSE PairValueLength(ReadBuf(Charge(st, dechunk(version, st.chunk)),
                                 dechunk(version, st.chunk), zeroOk),
                         version, i, num, zeroOk)

\* Lines 105-114: the name is kept and the value's length is read.
PairValueLength(st, version, i, num, zeroOk) ==
    IF st.err # "" THEN DResult(st, "panic", st.err)
    ELSE PairValue(ReadChunk([st EXCEPT !.name = Str(st.got, st.len)],
                             version, zeroOk),
                   version, i, num, zeroOk)

\* Lines 111-125: the value's length is checked and the value is read.
PairValue(st, version, i, num, zeroOk) ==
    IF st.err # "" THEN DResult(st, "panic", st.err)
    ELSE IF OverBounds(dechunk(version, st.chunk), st.bounds)
    THEN DResult(st, "err", "Error: Incorrect header values length.")
    ELSE IF MakePanics(dechunk(version, st.chunk))
    THEN DResult(Charge(st, dechunk(version, st.chunk)), "panic",
                 "runtime error: makeslice: len out of range")
    ELSE PairAdd(ReadBuf(Charge(st, dechunk(version, st.chunk)),
                         dechunk(version, st.chunk), zeroOk),
                 version, i, num, zeroOk)

\* Lines 123-135: the value is split on NUL and added under the name.
PairAdd(st, version, i, num, zeroOk) ==
    IF st.err # "" THEN DResult(st, "err", st.err)
    ELSE ReadPairs([st EXCEPT !.headers = AddSplit(@, st.name, st.got, st.len),
                              !.pairs = Append(@, [name |-> st.name, filled |-> st.got,
                                                   n |-> st.len])],
                   version, i + 1, num, zeroOk)

\* Lines 80-89: the number of pairs has been read.
ReadCount(st, version, zeroOk) ==
    IF st.err # "" THEN DResult(st, "panic", st.err)
    ELSE ReadPairs(st, version, 0, dechunk(version, st.chunk), zeroOk)

(* The body of Decompress, between Lock and the deferred Unlock: the       *)
(* decompressor after the call and what the call returns, kind "ok" with   *)
(* the headers, kind "err" with the error, or kind "panic".                *)
DecompressStart(dd, data) ==
    IF ~dd.outNil THEN [err |-> "", in |-> data]
    ELSE IF dd.version \in {2, 3} THEN ZNewReaderDict(data, dd.version)
    ELSE [err |-> "spdy: Version not supported.", in |-> data]

DecompressState(dd, start) ==
    [in |-> start.in, zr |-> dd.out, err |-> start.err, got |-> <<>>,
     chunk |-> [j \in 1..Width(dd.version) |-> 0], name |-> Str(<<>>, 0),
     bounds |-> MAX_FRAME_SIZE - 12, alloc |-> 0, len |-> 0, headers |-> {},
     short |-> FALSE, pairs |-> <<>>]

DecompressFrom(dd, st, zeroOk) ==
    IF st.err # "" THEN DResult(st, "err", st.err)
    ELSE ReadCount(ReadChunk(st, dd.version, zeroOk), dd.version, zeroOk)

DecompressEnd(dd, started, res) ==
    [d |-> [dd EXCEPT !.inNil = FALSE, !.in = res.in,
                      !.outNil = ~started, !.out = res.zr],
     res |-> res]

DecompressBody(dd, data, zeroOk) ==
    DecompressEnd(dd,
                  DecompressStart(dd, data).err = "",
                  DecompressFrom(dd, DecompressState(dd, DecompressStart(dd, data)), zeroOk))

---------------------------------------------------------------------------
(* Inputs.                                                                 *)

\* The header blocks the writers compress, as lists of <<name, value>>.
BlockPairs ==
    << << <<<<97>>, <<120>>>> >>,
       << <<<<97>>, <<120, 0, 121>>>>, <<<<98>>, <<121>>>>, <<<<97>>, <<121>>>> >> >>

\* What a peer may send as the inflated bytes of one Decompress call, as
\* the stretches it flushed: well-formed, cut short, with lengths beyond
\* the budget or with the top bit set, with empty names or values, with
\* an uppercase name.
PeerStretches(version) ==
    LET w == Width(version)
        U(n) == UintToBytes(n, w)
        top == <<128>> \o UintToBytes(0, w - 1)
        ones == [j \in 1..w |-> 255]
        one == EncodeBlock(version, BlockPairs[1])
    IN { <<>>,
         <<one>>,
         <<SubSeq(one, 1, w + 1), SubSeq(one, w + 2, Len(one))>>,
         <<U(1)>>,
         <<U(1) \o U(1) \o <<97>>>>,
         <<U(1) \o U(1) \o <<97>> \o U(2) \o <<120>>>>,
         <<U(1) \o U(MAX_FRAME_SIZE + 1)>>,
         <<U(1) \o U(MAX_FRAME_SIZE - 12) \o <<97>>, U(1) \o <<120>>>>,
         <<U(1) \o U(1) \o <<97>> \o U(MAX_FRAME_SIZE - 12) \o <<120>>>>,
         <<U(1) \o top \o <<97>>>>,
         <<U(1) \o U(1) \o <<65>> \o U(1) \o <<120>>>>,
         <<U(1) \o U(1) \o <<97>> \o ones \o <<120>>>>,
         <<U(1) \o U(0) \o U(1) \o <<120>>>>,
         <<U(1) \o U(1) \o <<97>> \o U(0)>> }

RECURSIVE SegUnits(_, _)
SegUnits(k, stretches) ==
    IF stretches = <<>> THEN <<>>
    ELSE <<SegUnit(k, Head(stretches))>> \o SegUnits(k + 1, Tail(stretches))

\* The compressed bytes a peer may hand to a decompressor dd: the
\* stretches in stream order, behind the zlib header when they open the
\* stream; or bytes that are no such stream.
PeerInputs(dd) ==
    { (IF dd.outNil THEN <<HdrUnit(dd.version)>> ELSE <<>>)
        \o SegUnits(dd.out.k, ss) : ss \in PeerStretches(dd.version) }
    \cup { <<SegUnit(dd.out.k + 1, <<>>)>>, <<HdrUnit(dd.version + 1)>> }

---------------------------------------------------------------------------
(* The state of the compressor and decompressor system.                    *)

VARIABLES
    c,      \* the Compressor
    mem,    \* the byte arrays c.buf has used
    wpc,    \* each writer's position in Compress
    warg,   \* the block (an index of BlockPairs) each writer compresses and,
            \* once its call has returned bytes, the call's index in clog
    wres,   \* what the body of Compress computed for each writer
    clog,   \* the Compress calls that have returned, in the order they held the lock
    d,      \* the Decompressor
    rpc,    \* each reader's position in Decompress
    rarg,   \* the input of each reader's Decompress call
    rres,   \* what the body of Decompress computed for each reader
    dlog,   \* the Decompress calls that have returned, in order
    fed,    \* how many entries of clog have been handed to Decompress
    calls,  \* Compress and Decompress calls begun
    noop,   \* the last operation on a NoopFrame
    req     \* a Request, with the last method called on it

vars ==
    <<c, mem, wpc, warg, wres, clog, d, rpc, rarg, rres, dlog, fed, calls, noop,
      intSize, req>>

codecVars ==
    <<c, mem, wpc, warg, wres, clog, d, rpc, rarg, rres, dlog, fed, calls,
      intSize>>

NoArg == [src |-> "none", idx |-> 0, data |-> <<>>]

NoCRes == [kind |-> "none", err |-> "", slice |-> NoSlice]

NoDRes ==
    [kind |-> "none", err |-> "", headers |-> {}, bounds |-> MAX_FRAME_SIZE - 12,
     alloc |-> 0, declared |-> 0, short |-> FALSE, pairs |-> <<>>]

\* No Request is in use.
NoReq == [op |-> "none"]

NoNoop ==
    [op |-> "none", reader |-> [data |-> <<>>, ends |-> "EOF"],
     res |-> [n |-> 0, err |-> "", got |-> 0, want |-> 0], consumed |-> 0,
     sink |-> <<>>, writes |-> 0]

InitCodec ==
    /\ \E v \in Versions : c = NewCompressor(v) /\ d = NewDecompressor(v)
    /\ intSize \in IntSizes
    /\ mem = <<>>
    /\ wpc = [w \in Writers |-> "idle"]
    /\ warg = [w \in Writers |-> 1]
    /\ wres = [w \in Writers |-> NoCRes]
    /\ clog = <<>>
    /\ rpc = [r \in Readers |-> "idle"]
    /\ rarg = [r \in Readers |-> NoArg]
    /\ rres = [r \in Readers |-> NoDRes]
    /\ dlog = <<>>
    /\ fed = 0
    /\ calls = [c |-> 0, d |-> 0]

Init == InitCodec /\ noop = NoNoop /\ req = NoReq

\* Whether every Decompress call so far took its input from the compressor.
FromWire == \A j \in 1..Len(dlog) : dlog[j].src = "wire"

(* Writer w calls Compress with block b.  A behaviour compresses and       *)
(* decompresses what it compressed, or decompresses a peer's bytes.        *)
CompressCall(w, b) ==
    /\ wpc[w] = "idle"
    /\ calls.c < MaxCompress
    /\ FromWire /\ \A r \in Readers : rarg[r].src # "peer"
    /\ wpc' = [wpc EXCEPT ![w] = "lock"]
    /\ warg' = [warg EXCEPT ![w] = b]
    /\ calls' = [calls EXCEPT !.c = @ + 1]
    /\ UNCHANGED <<c, mem, wres, clog, d, rpc, rarg, rres, dlog, fed, noop, intSize,
                 req>>

\* Compress, lines 164-165: c.m.Lock().
CompressLock(w) ==
    /\ wpc[w] = "lock"
    /\ MutexFree(c.m)
    /\ c' = [c EXCEPT !.m = w]
    /\ wpc' = [wpc EXCEPT ![w] = "body"]
    /\ UNCHANGED <<mem, warg, wres, clog, d, rpc, rarg, rres, dlog, fed, calls, noop, intSize,
                 req>>

\* Compress, lines 167-193: the body, under the lock.
CompressRun(w) ==
    /\ wpc[w] = "body"
    /\ \E grow \in BOOLEAN :
         LET r == CompressBody(c, mem, EncodeBlock(c.version, BlockPairs[warg[w]]), grow)
         IN /\ c' = r.c
            /\ mem' = r.mem
            /\ wres' = [wres EXCEPT ![w] = [kind |-> r.kind, err |-> r.err, slice |-> r.slice]]
    /\ wpc' = [wpc EXCEPT ![w] = "ret"]
    /\ UNCHANGED <<warg, clog, d, rpc, rarg, rres, dlog, fed, calls, noop, intSize,
                 req>>

(* Compress returns (or panics): the deferred Unlock runs and the caller   *)
(* has the result.  ret is the byte string the call returned, as it was    *)
(* when it was returned; wire is what the caller later emitted.  A caller  *)
(* that was returned bytes holds them until it emits them.                 *)
CompressReturn(w) ==
    /\ wpc[w] = "ret"
    /\ c' = [c EXCEPT !.m = ""]
    /\ clog' = Append(clog, [blk |-> warg[w], kind |-> wres[w].kind,
                             err |-> wres[w].err, slice |-> wres[w].slice,
                             ret |-> Contents(mem, wres[w].slice),
                             emitted |-> FALSE, wire |-> <<>>])
    /\ wpc' = [wpc EXCEPT ![w] = IF wres[w].kind = "ok" THEN "hold" ELSE "idle"]
    /\ wres' = [wres EXCEPT ![w] = NoCRes]
    /\ warg' = [warg EXCEPT ![w] = IF wres[w].kind = "ok" THEN Len(clog) + 1 ELSE 1]
    /\ UNCHANGED <<mem, d, rpc, rarg, rres, dlog, fed, calls, noop, intSize,
                 req>>

(* Writer w, whose Compress call is entry warg[w] of clog, uses the bytes  *)
(* it was returned: it reads its slice and puts the bytes on the wire.     *)
Emit(w) ==
    /\ wpc[w] = "hold"
    /\ clog' = [clog EXCEPT ![warg[w]].emitted = TRUE,
                            ![warg[w]].wire = Contents(mem, clog[warg[w]].slice)]
    /\ wpc' = [wpc EXCEPT ![w] = "idle"]
    /\ warg' = [warg EXCEPT ![w] = 1]
    /\ UNCHANGED <<c, mem, wres, d, rpc, rarg, rres, dlog, fed, calls, noop, intSize,
                 req>>

(* Reader r calls Decompress.  Its input is the next byte string of the    *)
(* wire, in the order of the Compress calls (no other call waits for the   *)
(* lock, so the calls run in the order they are made), or bytes of a       *)
(* peer's making.                                                          *)
DecompressCall(r, src) ==
    /\ rpc[r] = "idle"
    /\ calls.d < MaxDecompress
    /\ \/ /\ src = "wire"
          /\ FromWire
          /\ \A q \in Readers : rpc[q] # "lock"
          /\ fed < Len(clog)
          /\ clog[fed + 1].emitted
          /\ rarg' = [rarg EXCEPT ![r] = [src |-> "wire", idx |-> fed + 1,
                                          data |-> clog[fed + 1].wire]]
          /\ fed' = fed + 1
       \/ /\ src = "peer"
          /\ calls.c = 0
          /\ rarg' = [rarg EXCEPT ![r] = [src |-> "peer", idx |-> 0, data |-> <<>>]]
          /\ fed' = fed
    /\ rpc' = [rpc EXCEPT ![r] = "lock"]
    /\ calls' = [calls EXCEPT !.d = @ + 1]
    /\ UNCHANGED <<c, mem, wpc, warg, wres, clog, d, rres, dlog, noop, intSize,
                 req>>

(* Decompress, lines 34-35: d.m.Lock().  The bytes of a peer's making are  *)
(* any the peer may have sent the decompressor as it is when the call gets *)
(* the lock.                                                               *)
DecompressLock(r) ==
    /\ rpc[r] = "lock"
    /\ MutexFree(d.m)
    /\ d' = [d EXCEPT !.m = r]
    /\ rpc' = [rpc EXCEPT ![r] = "body"]
    /\ \/ rarg[r].src = "wire" /\ rarg' = rarg
       \/ /\ rarg[r].src = "peer"
          /\ \E data \in PeerInputs(d) : rarg' = [rarg EXCEPT ![r].data = data]
    /\ UNCHANGED <<c, mem, wpc, warg, wres, clog, rres, dlog, fed, calls, noop, intSize,
                 req>>

\* Decompress, lines 37-139: the body, under the lock.
DecompressRun(r) ==
    /\ rpc[r] = "body"
    /\ \E zeroOk \in BOOLEAN :
         LET b == DecompressBody(d, rarg[r].data, zeroOk)
         IN /\ d' = b.d
            /\ rres' = [rres EXCEPT ![r] =
                          [kind |-> b.res.kind, err |-> b.res.err,
                           headers |-> b.res.headers,
                           bounds |-> b.res.bounds, alloc |-> b.res.alloc,
                           declared |-> dechunk(d.version, b.res.chunk),
                           short |-> b.res.short, pairs |-> b.res.pairs]]
    /\ rpc' = [rpc EXCEPT ![r] = "ret"]
    /\ UNCHANGED <<c, mem, wpc, warg, wres, clog, rarg, dlog, fed, calls, noop, intSize,
                 req>>

\* Decompress returns (or panics): the deferred Unlock runs.
DecompressReturn(r) ==
    /\ rpc[r] = "ret"
    /\ d' = [d EXCEPT !.m = ""]
    /\ dlog' = Append(dlog, [src |-> rarg[r].src, idx |-> rarg[r].idx,
                             res |-> rres[r]])
    /\ rpc' = [rpc EXCEPT ![r] = "idle"]
    /\ rres' = [rres EXCEPT ![r] = NoDRes]
    /\ rarg' = [rarg EXCEPT ![r] = NoArg]
    /\ UNCHANGED <<c, mem, wpc, warg, wres, clog, fed, calls, noop, intSize,
                 req>>

Next ==
    \/ \E w \in Writers, b \in 1..Len(BlockPairs) : CompressCall(w, b)
    \/ \E w \in Writers : CompressLock(w)
    \/ \E w \in Writers : CompressRun(w)
    \/ \E w \in Writers : CompressReturn(w)
    \/ \E w \in Writers : Emit(w)
    \/ \E r \in Readers, src \in {"wire", "peer"} : DecompressCall(r, src)
    \/ \E r \in Readers : DecompressLock(r)
    \/ \E r \in Readers : DecompressRun(r)
    \/ \E r \in Readers : DecompressReturn(r)

Spec == Init /\ [][Next]_vars

---------------------------------------------------------------------------
(* Properties of the compressor and decompressor.                          *)

\* The Decompress results so far: those returned and those computed by a
\* call that has yet to return.
DResults ==
    {dlog[j].res : j \in 1..Len(dlog)}
    \cup {rres[r] : r \in {q \in Readers : rpc[q] = "ret"}}

(* C1: when header blocks go in order through Compress on one Compressor   *)
(* and each returned byte string goes in the same order to Decompress on   *)
(* one Decompressor of the same version (2 or 3), every Decompress call    *)
(* returns, without error, the Header of the block its input was           *)
(* compressed from: the same names and for each name the same values in    *)
(* the same order.                                                         *)
C1_RoundTrip ==
    \A j \in 1..Len(dlog) :
        dlog[j].src = "wire" /\ c.version \in {2, 3} =>
            /\ dlog[j].res.kind = "ok"
            /\ dlog[j].res.headers = HeaderOf({}, BlockPairs[clog[dlog[j].idx].blk])

\* The byte strings a compressor of this version returns when it compresses
\* the blocks blks one call after the other.
RECURSIVE SerialRun(_, _, _)
SerialRun(cc, mm, blks) ==
    IF blks = <<>> THEN <<>>
    ELSE <<Contents(CompressBody(cc, mm, EncodeBlock(cc.version, BlockPairs[Head(blks)]), TRUE).mem,
                    CompressBody(cc, mm, EncodeBlock(cc.version, BlockPairs[Head(blks)]), TRUE).slice)>>
         \o SerialRun(CompressBody(cc, mm, EncodeBlock(cc.version, BlockPairs[Head(blks)]), TRUE).c,
                      CompressBody(cc, mm, EncodeBlock(cc.version, BlockPairs[Head(blks)]), TRUE).mem,
                      Tail(blks))

Orders(n) == {p \in [1..n -> 1..n] : \A i, j \in 1..n : p[i] = p[j] => i = j}

(* C2: the byte strings concurrent writers emit after their Compress calls *)
(* are the outputs of some serial execution of those calls: there is an    *)
(* order of the calls in which a compressor, running them one after the    *)
(* other, returns for each call the bytes its writer emitted.              *)
C2_SerialOutputs ==
    \E p \in Orders(Len(clog)) :
        \A j \in 1..Len(clog) :
            clog[p[j]].emitted =>
                clog[p[j]].wire =
                    SerialRun(NewCompressor(c.version), <<>>,
                              [i \in 1..Len(clog) |-> clog[p[i]].blk])[j]

(* C3: at most one Compress call is in its body on the Compressor and at   *)
(* most one Decompress call is in its body on the Decompressor, in every   *)
(* reachable state.                                                        *)
C3_MutualExclusion ==
    /\ Cardinality({w \in Writers : wpc[w] \in {"body", "ret"}}) <= 1
    /\ Cardinality({r \in Readers : rpc[r] \in {"body", "ret"}}) <= 1

\* A Compress call is in its body while another caller waits for the lock.
C3_Witness ==
    \E w \in Writers, v \in Writers : wpc[w] = "body" /\ wpc[v] = "lock"

(* C4: every Compress call on a Compressor of a version other than 2 and 3 *)
(* returns the version-not-supported error and no bytes; none panics.      *)
C4_VersionError ==
    c.version \notin {2, 3} =>
        \A i \in 1..Len(clog) :
            /\ clog[i].kind = "err"
            /\ clog[i].err = "spdy: Version not supported."
            /\ clog[i].ret = <<>>

(* C5: no Decompress call panics, whatever its input and whatever calls    *)
(* came before: a failed read or inflation is a returned error.            *)
C5_NoPanic == \A res \in DResults : res.kind # "panic"

(* C6: the budget of a Decompress call starts at MAX_FRAME_SIZE - 12 and   *)
(* goes down by every length it admits; it never goes below zero, the      *)
(* lengths of the buffers the call allocates sum to at most                *)
(* MAX_FRAME_SIZE - 12, and a call that returns a length error has         *)
(* allocated nothing for the length it refused, which exceeds the budget   *)
(* left.                                                                   *)
C6_Budget ==
    \A res \in DResults :
        /\ res.bounds >= 0
        /\ res.alloc <= MAX_FRAME_SIZE - 12
        /\ res.bounds + res.alloc = MAX_FRAME_SIZE - 12
        /\ res.err \in {"Error: Incorrect header name length.",
                        "Error: Incorrect header values length."}
             => res.kind = "err" /\ res.declared > res.bounds

(* C11: a SPDY/3 Decompress call rejects a block with an uppercase ASCII   *)
(* letter in a name, so every name of a Header it returns is lowercase.    *)
C11_LowercaseNames ==
    \A res \in DResults :
        d.version = 3 /\ res.kind = "ok" =>
            \A e \in res.headers :
                \A i \in 1..Len(e.name.s) : e.name.s[i] \notin 65..90

(* For C21 a byte string is written as runs [b, c], the byte b c times in  *)
(* a row, no two neighbouring runs with the same byte: a buffer that ends  *)
(* in millions of zero bytes stays small.                                  *)
RunsAppend(rle, b, n) ==
    IF n = 0 THEN rle
    ELSE IF rle # <<>> /\ rle[Len(rle)].b = b
    THEN [rle EXCEPT ![Len(rle)].c = @ + n]
    ELSE Append(rle, [b |-> b, c |-> n])

RECURSIVE RunsBytes(_, _)
RunsBytes(rle, s) ==
    IF s = <<>> THEN rle ELSE RunsBytes(RunsAppend(rle, Head(s), 1), Tail(s))

\* The values of one name, in order, joined by single NUL bytes.
RECURSIVE JoinValues(_, _, _)
JoinValues(rle, vals, first) ==
    IF vals = <<>> THEN rle
    ELSE IF Head(vals).v = <<>>
    THEN JoinValues(RunsAppend(rle, 0, IF first THEN Head(vals).c - 1 ELSE Head(vals).c),
                    Tail(vals), FALSE)
    ELSE JoinValues(RunsBytes(IF first THEN rle ELSE RunsAppend(rle, 0, 1), Head(vals).v),
                    IF Head(vals).c = 1 THEN Tail(vals)
                    ELSE <<[v |-> Head(vals).v, c |-> Head(vals).c - 1]>> \o Tail(vals),
                    FALSE)

\* The value buffers of the pairs with one name, in order, joined by
\* single NUL bytes.
RECURSIVE JoinPairs(_, _, _, _)
JoinPairs(rle, pairs, name, first) ==
    IF pairs = <<>> THEN rle
    ELSE IF Head(pairs).name # name THEN JoinPairs(rle, Tail(pairs), name, first)
    ELSE JoinPairs(RunsAppend(RunsBytes(IF first THEN rle ELSE RunsAppend(rle, 0, 1),
                                        Head(pairs).filled),
                              0, Head(pairs).n - Len(Head(pairs).filled)),
                   Tail(pairs), name, FALSE)

\* The number of values in a list of values.
RECURSIVE NumValues(_)
NumValues(vals) == IF vals = <<>> THEN 0 ELSE Head(vals).c + NumValues(Tail(vals))

\* The NUL bytes of a value buffer.
NulBytes(pair) == Cardinality({i \in 1..Len(pair.filled) : pair.filled[i] = 0})
                  + (pair.n - Len(pair.filled))

\* k + 1 summed over the pairs with one name, k the NUL bytes of the value.
RECURSIVE SegmentsOf(_, _)
SegmentsOf(pairs, name) ==
    IF pairs = <<>> THEN 0
    ELSE (IF Head(pairs).name = name THEN NulBytes(Head(pairs)) + 1 ELSE 0)
         + SegmentsOf(Tail(pairs), name)

(* C21: for each decoded name/value pair, Decompress splits the value at   *)
(* every NUL byte and appends the segments in order as separate values     *)
(* under that name: no value of the Header holds a NUL byte, a value with  *)
(* k NUL bytes contributes exactly k + 1 values, and the values of a name, *)
(* joined by NUL bytes, are the values of its pairs in the order of the    *)
(* pairs, so that a later pair with the same name appends after the values *)
(* already present.                                                        *)
C21_SplitAtEveryNul ==
    \A res \in DResults :
        res.kind = "ok" =>
            /\ {e.name : e \in res.headers} = {res.pairs[i].name : i \in 1..Len(res.pairs)}
            /\ \A e \in res.headers :
                 /\ \A i \in 1..Len(e.vals) : 0 \notin {e.vals[i].v[j] : j \in 1..Len(e.vals[i].v)}
                 /\ NumValues(e.vals) = SegmentsOf(res.pairs, e.name)
                 /\ JoinValues(<<>>, e.vals, TRUE) = JoinPairs(<<>>, res.pairs, e.name, TRUE)

\* A call has returned a Header for three pairs read in full, two of them
\* with the same name and one with a NUL byte in its value: the name has
\* three values.
C21_Witness ==
    \E res \in DResults :
        /\ res.kind = "ok" /\ ~res.short /\ Len(res.pairs) = 3
        /\ \E i, j \in 1..3 : i < j /\ res.pairs[i].name = res.pairs[j].name
                                /\ NulBytes(res.pairs[i]) = 1
        /\ \E e \in res.headers : NumValues(e.vals) = 3

\* The successful Compress calls among the first n that returned.
OkBefore(n) == {i \in 1..n : clog[i].kind = "ok"}

(* C17: each successful Compress call returns exactly the bytes that call  *)
(* produced, none of an earlier call's: the zlib header and the first      *)
(* stretch for the first call, for a later call the one stretch that       *)
(* follows those of the calls before it in the one stream of the writer,   *)
(* which is created on the first call and never reset.                     *)
C17_OwnBytesOneStream ==
    /\ \A i \in OkBefore(Len(clog)) :
         clog[i].ret =
             (IF OkBefore(i - 1) = {} THEN <<HdrUnit(c.version)>> ELSE <<>>)
             \o <<SegUnit(Cardinality(OkBefore(i - 1)),
                          EncodeBlock(c.version, BlockPairs[clog[i].blk]))>>
    /\ (\A w \in Writers : wpc[w] # "ret") /\ ~c.wNil =>
         /\ c.w.k = Cardinality(OkBefore(Len(clog)))
         /\ c.w.wroteHeader = (c.w.k > 0)

\* Two Compress calls have returned bytes, the second only its own stretch.
C17_Witness ==
    /\ Len(clog) >= 2
    /\ clog[1].kind = "ok" /\ clog[2].kind = "ok"
    /\ Len(clog[1].ret) = 2
    /\ clog[2].ret = <<SegUnit(1, EncodeBlock(c.version, BlockPairs[clog[2].blk]))>>

(* C18: the byte string a Compress call returned is not altered by a later *)
(* Compress call: the slice the caller holds still reads as the bytes that *)
(* were returned.                                                          *)
C18_ReturnedBytesKept ==
    \A i \in OkBefore(Len(clog)) : Contents(mem, clog[i].slice) = clog[i].ret

(* C19: Decompress parses a count, a length, a name or a value only once   *)
(* its buffer holds the full declared number of bytes: after a read that   *)
(* delivers fewer bytes without an error it reads the rest or returns an   *)
(* error, and never goes on with the partly filled buffer.                 *)
C19_FullReads == \A res \in DResults : ~res.short

(* C20: a decode error is permanent: once a Decompress call has returned   *)
(* an error, no later Decompress call on the same Decompressor returns a   *)
(* Header.                                                                 *)
C20_ErrorPermanent ==
    \A i \in 1..Len(dlog) : \A j \in (i + 1)..Len(dlog) :
        dlog[i].res.kind = "err" => dlog[j].res.kind # "ok"

---------------------------------------------------------------------------
(* The SPDY/2 NOOP frame.                                                  *)

(* A reader yields the bytes data and then ends, with EOF or with an       *)
(* error.  common.ReadExactly(reader, n) returns the first n bytes, or the *)
(* error when the reader ends before; either way it has taken the bytes it *)
(* read from the reader (consumed).                                        *)
ReadExactly(reader, n) ==
    IF Len(reader.data) >= n
    THEN [data |-> SubSeq(reader.data, 1, n), err |-> "", consumed |-> n]
    ELSE [data |-> <<>>,
          err |-> IF reader.ends = "EOF" THEN "ShortRead" ELSE "TransportError",
          consumed |-> Len(reader.data)]

\* Whether bit i of byte x is set.
Bit(x, i) == (x \div (2 ^ i)) % 2 = 1

(* controlFrameCommonProcessing(data[:5], frameType, flags): the control   *)
(* bit is set, the version is 2, the type is frameType and no flag outside *)
(* flags is set.                                                           *)
controlFrameCommonProcessing(data, frameType, flags) ==
    IF data[1] < 128 THEN "ProtocolError"
    ELSE IF (data[1] - 128) * 256 + data[2] # 2 THEN "ProtocolError"
    ELSE IF data[3] * 256 + data[4] # frameType THEN "ProtocolError"
    ELSE IF \E i \in 0..7 : Bit(data[5], i) /\ ~Bit(flags, i) THEN "ProtocolError"
    ELSE ""

\* What a NoopFrame method returns: the byte count n and the error, which
\* for an IncorrectDataLength carries the length got and the length wanted.
NoopResult(n, err, got, want) == [n |-> n, err |-> err, got |-> got, want |-> want]

\* A ReadFrom that accepts whatever length the frame declares.
ReadFromAnyLength(data) == NoopResult(8, "", 0, 0)

\* NoopFrame.ReadFrom, lines 35-40, on the 8 bytes read.
ReadFromLength(data) ==
    IF BytesToUint24(SubSeq(data, 6, 8)) # 0
    THEN NoopResult(8, "IncorrectDataLength", BytesToUint24(SubSeq(data, 6, 8)), 0)
    ELSE NoopResult(8, "", 0, 0)

\* A ReadFrom that checks the length before it validates the header.
ReadFromLengthFirst(data) ==
    IF ReadFromLength(data).err # "" THEN ReadFromLength(data)
    ELSE NoopResult(8, controlFrameCommonProcessing(SubSeq(data, 1, 5), NOOP, 0), 0, 0)

\* NoopFrame.ReadFrom, lines 29-40, on the 8 bytes read.
ReadFromHeader(data) ==
    IF controlFrameCommonProcessing(SubSeq(data, 1, 5), NOOP, 0) # ""
    THEN NoopResult(8, controlFrameCommonProcessing(SubSeq(data, 1, 5), NOOP, 0), 0, 0)
    ELSE ReadFromLength(data)

\* NoopFrame.ReadFrom.
ReadFrom(reader) ==
    IF ReadExactly(reader, 8).err # ""
    THEN NoopResult(0, ReadExactly(reader, 8).err, 0, 0)
    ELSE ReadFromHeader(ReadExactly(reader, 8).data)

\* NoopFrame.WriteTo: the bytes it writes to the sink and the count and
\* error it returns.
WriteTo == [wrote |-> <<>>, n |-> 0, err |-> ""]

\* The 8 bytes readers yield, whole or cut short.
NoopHeaders ==
    { <<b1, b2, 0, b4, b5>> \o len :
        b1 \in {128, 0}, b2 \in {2, 3}, b4 \in {NOOP, 6}, b5 \in {0, 1},
        len \in {<<0, 0, 0>>, <<0, 0, 1>>, <<1, 0, 0>>} }

NoopReaders ==
    { [data |-> SubSeq(h, 1, k), ends |-> e] :
        h \in NoopHeaders, k \in 0..8, e \in {"EOF", "error"} }

InitNoop ==
    /\ noop = NoNoop
    /\ req = NoReq
    /\ c = NewCompressor(2) /\ d = NewDecompressor(2)
    /\ intSize \in IntSizes
    /\ mem = <<>>
    /\ wpc = [w \in Writers |-> "idle"]
    /\ warg = [w \in Writers |-> 1]
    /\ wres = [w \in Writers |-> NoCRes]
    /\ clog = <<>>
    /\ rpc = [r \in Readers |-> "idle"]
    /\ rarg = [r \in Readers |-> NoArg]
    /\ rres = [r \in Readers |-> NoDRes]
    /\ dlog = <<>>
    /\ fed = 0
    /\ calls = [c |-> 0, d |-> 0]

\* A frame is read from a reader.
NoopReadFrom(reader) ==
    /\ noop' = [op |-> "ReadFrom", reader |-> reader, res |-> ReadFrom(reader),
                consumed |-> ReadExactly(reader, 8).consumed,
                sink |-> noop.sink, writes |-> noop.writes]
    /\ UNCHANGED <<codecVars, req>>

\* A frame is written to the sink.
NoopWriteTo ==
    /\ noop.writes < MaxWrites
    /\ noop' = [op |-> "WriteTo", reader |-> noop.reader,
                res |-> NoopResult(WriteTo.n, WriteTo.err, 0, 0), consumed |-> 0,
                sink |-> noop.sink \o WriteTo.wrote, writes |-> noop.writes + 1]
    /\ UNCHANGED <<codecVars, req>>

\* A frame is read back from what was written to the sink.
NoopReadBack ==
    /\ noop.writes > 0
    /\ noop' = [op |-> "ReadBack", reader |-> [data |-> noop.sink, ends |-> "EOF"],
                res |-> ReadFrom([data |-> noop.sink, ends |-> "EOF"]),
                consumed |-> ReadExactly([data |-> noop.sink, ends |-> "EOF"], 8).consumed,
                sink |-> noop.sink, writes |-> noop.writes]
    /\ UNCHANGED <<codecVars, req>>

NextNoop ==
    \/ \E reader \in NoopReaders : NoopReadFrom(reader)
    \/ NoopWriteTo
    \/ NoopReadBack

SpecNoop == InitNoop /\ [][NextNoop]_vars


---------------------------------------------------------------------------
(* Properties of the NOOP frame.                                           *)

\* The 8 bytes of the SPDY/2 NOOP frame.
NoopBytes == <<128, 2, 0, 5, 0, 0, 0, 0>>

\* The last operation was a ReadFrom, of a reader's bytes or of the sink's.
NoopRead == noop.op \in {"ReadFrom", "ReadBack"}

\* The 24-bit length field of the 8 bytes data.
NoopLength(data) == data[6] * 65536 + data[7] * 256 + data[8]

\* The first five bytes of data are those of a SPDY/2 NOOP control frame
\* with no flag set.
NoopValidHeader(data) ==
    /\ data[1] >= 128
    /\ (data[1] - 128) * 256 + data[2] = 2
    /\ data[3] * 256 + data[4] = 5
    /\ data[5] = 0

(* C7: ReadFrom, given 8 bytes whose first five pass the common header     *)
(* validation and whose length field is not 0, returns                     *)
(* IncorrectDataLength(length, 0) and reports 8 bytes consumed.            *)
C7_IncorrectDataLength ==
    (/\ NoopRead
     /\ Len(noop.reader.data) >= 8
     /\ NoopValidHeader(noop.reader.data)
     /\ NoopLength(noop.reader.data) # 0)
    => noop.res = NoopResult(8, "IncorrectDataLength",
                             NoopLength(noop.reader.data), 0)

\* ReadFrom has refused a well-formed NOOP header of length 65536.
C7_Witness ==
    /\ noop.op = "ReadFrom"
    /\ noop.reader.data = <<128, 2, 0, 5, 0, 1, 0, 0>>
    /\ noop.res.err = "IncorrectDataLength"
    /\ noop.res.got = 65536
    /\ noop.res.n = 8

(* C8: ReadFrom returns an error and reports 8 bytes consumed whenever the *)
(* 8 bytes it read have the control bit clear, a version other than 2, a   *)
(* type other than NOOP or a flag bit set; the header is checked before    *)
(* the length, so the error is never the length's.                         *)
C8_HeaderValidation ==
    (/\ NoopRead
     /\ Len(noop.reader.data) >= 8
     /\ ~NoopValidHeader(noop.reader.data))
    => /\ noop.res.n = 8
       /\ noop.res.err \notin {"", "IncorrectDataLength"}

\* ReadFrom has refused the v3 header 80 03 00 05 of a frame whose length
\* field is wrong too.
C8_Witness ==
    /\ noop.op = "ReadFrom"
    /\ noop.reader.data = <<128, 3, 0, 5, 0, 0, 0, 1>>
    /\ noop.res.err = "ProtocolError"
    /\ noop.res.n = 8

(* C9: WriteTo writes the 8 bytes 80 02 00 05 00 00 00 00 to the sink and  *)
(* reports 8 bytes written, and ReadFrom of what WriteTo wrote returns 8   *)
(* bytes consumed and no error.                                            *)
C9_NoopRoundTrip ==
    /\ noop.op = "WriteTo" =>
         /\ noop.res = NoopResult(8, "", 0, 0)
         /\ Len(noop.sink) = 8 * noop.writes
         /\ SubSeq(noop.sink, Len(noop.sink) - 7, Len(noop.sink)) = NoopBytes
    /\ noop.op = "ReadBack" => noop.res = NoopResult(8, "", 0, 0)

(* C10: whenever ReadFrom returns an error, the byte count it returns is   *)
(* the number of bytes it took from the reader, also when the reader       *)
(* yields 1 to 7 bytes and then ends or fails.                             *)
C10_CountIsConsumed ==
    NoopRead /\ noop.res.err # "" => noop.res.n = noop.consumed


---------------------------------------------------------------------------
(* The Request (src/unnamed/part_000): form parsing and cookies.           *)

\* A bound of the model: the AddCookie calls on one Request.
MaxCookies == 2

\* The form keys requests use.
Keys == {"k", "j"}

(* url.Values: a nil map, or a map from keys to lists of values.  A key    *)
(* with no value is not in the map.                                        *)
NilValues == [nil |-> TRUE, m |-> [k \in Keys |-> <<>>]]

MakeValues == [nil |-> FALSE, m |-> [k \in Keys |-> <<>>]]

\* len(v): the keys of the map.
LenValues(v) == Cardinality({k \in Keys : v.m[k] # <<>>})

\* v[key] = append(v[key], vs...).
AppendValues(v, key, vs) == [nil |-> FALSE, m |-> [v.m EXCEPT ![key] = @ \o vs]]

\* copyValues(dst, src): every value of src is added to dst under its key.
copyValues(dst, src) == [dst EXCEPT !.m = [k \in Keys |-> dst.m[k] \o src.m[k]]]

(* A query string or url-encoded body is the sequence of its pairs, each   *)
(* [t |-> "pair", name, value] or, with an invalid escape, t |-> "bad".     *)
(* url.ParseQuery adds every good pair to the map in order, skips a bad    *)
(* one and returns the first error along with the map.                     *)
RECURSIVE ParseQueryInto(_, _, _)
ParseQueryInto(v, err, q) ==
    IF q = <<>> THEN [vals |-> v, err |-> err]
    ELSE IF Head(q).t # "pair"
    THEN ParseQueryInto(v, IF err = "" THEN "invalid URL escape" ELSE err, Tail(q))
    ELSE ParseQueryInto(AppendValues(v, Head(q).name, <<Head(q).value>>), err, Tail(q))

ParseQuery(q) == ParseQueryInto(MakeValues, "", q)

\* mime.ParseMediaType of the Content-Type values requests carry.
ParseMediaType(v) ==
    IF v = "" THEN [d |-> "", boundary |-> FALSE, err |-> "mime: no media type"]
    ELSE IF v = "multipart/form-data; boundary=x"
    THEN [d |-> "multipart/form-data", boundary |-> TRUE, err |-> ""]
    ELSE [d |-> v, boundary |-> FALSE, err |-> ""]

(* parsePostForm(r), for a Request with a Body: a url-encoded body is read *)
(* to its end and parsed; a multipart body is left to ParseMultipartForm.  *)
(* The result is the values (nil if none were parsed), the error, what is  *)
(* left of the body and whether the body was read.                         *)
parsePostForm(r) ==
    IF ParseMediaType(r.Header.ContentType).d = "application/x-www-form-urlencoded"
    THEN [vs |-> ParseQuery(r.Body).vals, err |-> ParseQuery(r.Body).err,
          body |-> <<>>, read |-> TRUE]
    ELSE [vs |-> NilValues, err |-> ParseMediaType(r.Header.ContentType).err,
          body |-> r.Body, read |-> FALSE]

\* ParseForm, lines 374-381: r.PostForm is set if it is nil.
ParseFormPost(r) ==
    IF ~r.PostForm.nil THEN [r |-> r, err |-> "", read |-> FALSE]
    ELSE IF r.Method \in {"POST", "PUT"}
    THEN [r |-> [r EXCEPT !.PostForm = IF parsePostForm(r).vs.nil THEN MakeValues
                                       ELSE parsePostForm(r).vs,
                          !.Body = parsePostForm(r).body],
          err |-> parsePostForm(r).err, read |-> parsePostForm(r).read]
    ELSE [r |-> [r EXCEPT !.PostForm = MakeValues], err |-> "", read |-> FALSE]

\* ParseForm, lines 387-397: the values of the URL's query.
NewValues(r) ==
    IF r.URL.nil THEN [vals |-> MakeValues, err |-> ""]
    ELSE ParseQuery(r.URL.RawQuery)

\* ParseForm, lines 382-404, after r.PostForm is set: r.Form is set if it
\* is nil, to the values of the body followed by those of the query.
ParseFormForm(p) ==
    IF ~p.r.Form.nil THEN p
    ELSE [r |-> [p.r EXCEPT !.Form =
                    IF LenValues(p.r.PostForm) > 0
                    THEN copyValues(copyValues(MakeValues, p.r.PostForm), NewValues(p.r).vals)
                    ELSE NewValues(p.r).vals],
          err |-> IF p.err = "" THEN NewValues(p.r).err ELSE p.err,
          read |-> p.read]

\* A ParseForm that parses the body and the query on every call.
ParseFormAgain(r) ==
    ParseFormForm(ParseFormPost([r EXCEPT !.PostForm = NilValues, !.Form = NilValues]))

(* Request.ParseForm: the Request after the call, the error returned and   *)
(* whether the call read the body.                                         *)
ParseForm(r) == ParseFormForm(ParseFormPost(r))


(* Request.MultipartForm: nil, the sentinel multipartByReader, or a parsed *)
(* *multipart.Form with its Value and File maps.                           *)
NoForm == [kind |-> "nil", Value |-> [k \in Keys |-> <<>>], File |-> [k \in Keys |-> <<>>]]

multipartByReader == [NoForm EXCEPT !.kind = "byReader"]

EmptyForm == [NoForm EXCEPT !.kind = "form"]

\* Request.multipartReader: the error, "" when a reader over r.Body is made.
multipartReader(r) ==
    IF r.Header.ContentType = "" THEN "ErrNotMultipart"
    ELSE IF ParseMediaType(r.Header.ContentType).err # ""
            \/ ParseMediaType(r.Header.ContentType).d # "multipart/form-data"
    THEN "ErrNotMultipart"
    ELSE IF ~ParseMediaType(r.Header.ContentType).boundary THEN "ErrMissingBoundary"
    ELSE ""

(* A multipart body is the sequence of its parts, each [t |-> "part", name,*)
(* value, file], closed by one t |-> "end"; a malformed part has t |->      *)
(* "bad".  multipart.Reader.ReadForm reads parts up to the closing         *)
(* boundary: a file part goes to File, any other to Value.  A body that    *)
(* ends before the closing boundary is an error.                           *)
RECURSIVE ReadFormFrom(_, _)
ReadFormFrom(f, body) ==
    IF body = <<>> THEN [f |-> NoForm, err |-> "multipart: NextPart: EOF", rest |-> <<>>]
    ELSE IF Head(body).t = "end" THEN [f |-> f, err |-> "", rest |-> <<>>]
    ELSE IF Head(body).t # "part"
    THEN [f |-> NoForm, err |-> "multipart: malformed part", rest |-> Tail(body)]
    ELSE IF Head(body).file
    THEN ReadFormFrom([f EXCEPT !.File[Head(body).name] = Append(@, Head(body).value)],
                      Tail(body))
    ELSE ReadFormFrom([f EXCEPT !.Value[Head(body).name] = Append(@, Head(body).value)],
                      Tail(body))

\* A failed ReadForm has read up to the bad part, or further into the
\* body if its buffered reader read ahead (keep tells which).
ReadForm(body, keep) ==
    [ReadFormFrom(EmptyForm, body) EXCEPT !.rest = IF keep THEN @ ELSE <<>>]

\* ParseMultipartForm, lines 434-443: the form is read and stored.
StoreForm(p, keep) ==
    IF ReadForm(p.r.Body, keep).err # ""
    THEN [r |-> [p.r EXCEPT !.Body = ReadForm(p.r.Body, keep).rest],
          err |-> ReadForm(p.r.Body, keep).err, read |-> TRUE]
    ELSE [r |-> [p.r EXCEPT !.Body = <<>>,
                            !.Form = [nil |-> FALSE,
                                      m |-> [k \in Keys |->
                                               @.m[k] \o ReadForm(p.r.Body, keep).f.Value[k]]],
                            !.MultipartForm = ReadForm(p.r.Body, keep).f],
          err |-> "", read |-> TRUE]

\* ParseMultipartForm, lines 422-443, after ParseForm has returned p
\* without an error.
ParseMultipartBody(p, keep) ==
    IF p.r.MultipartForm.kind # "nil" THEN p
    ELSE IF multipartReader(p.r) = "ErrNotMultipart" THEN p
    ELSE IF multipartReader(p.r) # "" THEN [p EXCEPT !.err = multipartReader(p.r)]
    ELSE StoreForm(p, keep)

(* Request.ParseMultipartForm: the Request after the call, the error       *)
(* returned and whether the call read the body.                            *)
ParseMultipartForm(r, keep) ==
    IF r.MultipartForm.kind = "byReader"
    THEN [r |-> r, err |-> "http: multipart handled by MultipartReader", read |-> FALSE]
    ELSE IF r.Form.nil /\ ParseForm(r).err # "" THEN ParseForm(r)
    ELSE IF r.Form.nil THEN ParseMultipartBody(ParseForm(r), keep)
    ELSE ParseMultipartBody([r |-> r, err |-> "", read |-> FALSE], keep)

\* A MultipartReader that marks the Request only when it returns a reader.
MultipartReaderOnSuccess(r) ==
    IF r.MultipartForm.kind = "byReader"
    THEN [r |-> r, err |-> "spdy: MultipartReader called twice", read |-> FALSE]
    ELSE IF r.MultipartForm.kind # "nil"
    THEN [r |-> r, err |-> "spdy: multipart handled by ParseMultipartForm", read |-> FALSE]
    ELSE [r |-> IF multipartReader(r) = "" THEN [r EXCEPT !.MultipartForm = multipartByReader]
                ELSE r,
          err |-> multipartReader(r), read |-> FALSE]

(* Request.MultipartReader: the Request after the call and the error; the  *)
(* reader it returns is over r.Body, which the call itself does not read.  *)
MultipartReader(r) ==
    IF r.MultipartForm.kind = "byReader"
    THEN [r |-> r, err |-> "spdy: MultipartReader called twice", read |-> FALSE]
    ELSE IF r.MultipartForm.kind # "nil"
    THEN [r |-> r, err |-> "spdy: multipart handled by ParseMultipartForm", read |-> FALSE]
    ELSE [r |-> [r EXCEPT !.MultipartForm = multipartByReader],
          err |-> multipartReader(r), read |-> FALSE]

\* The first value of key in a form, "" if there is none.
First(v, key) == IF v.m[key] # <<>> THEN Head(v.m[key]) ELSE ""

(* Request.FormValue: the Request after the call and the value returned;   *)
(* the error of ParseMultipartForm is dropped.                             *)
FormValue(r, key, keep) ==
    IF r.Form.nil
    THEN [r |-> ParseMultipartForm(r, keep).r, err |-> "",
          read |-> ParseMultipartForm(r, keep).read,
          val |-> First(ParseMultipartForm(r, keep).r.Form, key)]
    ELSE [r |-> r, err |-> "", read |-> FALSE, val |-> First(r.Form, key)]

\* FormFile, lines 485-491: the first file of key is opened.
OpenFile(p, key) ==
    IF p.r.MultipartForm.kind = "form" /\ p.r.MultipartForm.File[key] # <<>>
    THEN [r |-> p.r, err |-> "", read |-> p.read, val |-> Head(p.r.MultipartForm.File[key])]
    ELSE [r |-> p.r, err |-> "ErrMissingFile", read |-> p.read, val |-> ""]

(* Request.FormFile: the Request after the call, the error and the file    *)
(* returned.                                                               *)
FormFile(r, key, keep) ==
    IF r.MultipartForm.kind = "byReader"
    THEN [r |-> r, err |-> "http: multipart handled by MultipartReader",
          read |-> FALSE, val |-> ""]
    ELSE IF r.MultipartForm.kind = "nil" /\ ParseMultipartForm(r, keep).err # ""
    THEN [r |-> ParseMultipartForm(r, keep).r, err |-> ParseMultipartForm(r, keep).err,
          read |-> ParseMultipartForm(r, keep).read, val |-> ""]
    ELSE IF r.MultipartForm.kind = "nil" THEN OpenFile(ParseMultipartForm(r, keep), key)
    ELSE OpenFile([r |-> r, err |-> "", read |-> FALSE], key)


(* Cookies.  A string is the sequence of its bytes; LF is 10, CR 13,       *)
(* space 32, '-' 45, ';' 59, '=' 61.                                       *)
RECURSIVE Replace(_, _, _)
Replace(str, olds, new) ==
    IF str = <<>> THEN <<>>
    ELSE <<IF Head(str) \in olds THEN new ELSE Head(str)>> \o Replace(Tail(str), olds, new)

\* sanitizeName: a line break in a cookie's name becomes '-'.
sanitizeName(n) == Replace(n, {10, 13}, 45)

\* sanitizeValue: a line break or ';' in a cookie's value becomes a space.
sanitizeValue(v) == Replace(v, {10, 13, 59}, 32)

\* Header.Get("Cookie"): the first value of the field, "" if there is none.
HeaderGet(h) == IF h.Cookie = <<>> THEN <<>> ELSE Head(h.Cookie)

\* Header.Set("Cookie", v): v becomes the only value of the field.
HeaderSet(h, v) == [h EXCEPT !.Cookie = <<v>>]

\* fmt.Sprintf("%s=%s", ...) of AddCookie.
CookieString(ck) == sanitizeName(ck.Name) \o <<61>> \o sanitizeValue(ck.Value)

\* An AddCookie that sets the field to the new cookie alone.
AddCookieAlone(r, ck) == [r EXCEPT !.Header = HeaderSet(@, CookieString(ck))]

\* Request.AddCookie: the Request after the call.
AddCookie(r, ck) ==
    IF HeaderGet(r.Header) # <<>>
    THEN [r EXCEPT !.Header = HeaderSet(@, HeaderGet(r.Header) \o <<59, 32>> \o CookieString(ck))]
    ELSE [r EXCEPT !.Header = HeaderSet(@, CookieString(ck))]


(* The requests of the model.                                              *)
Pair(n, v) == [t |-> "pair", name |-> n, value |-> v, file |-> FALSE]

Part(n, v, f) == [t |-> "part", name |-> n, value |-> v, file |-> f]

BadItem == [t |-> "bad", name |-> "k", value |-> "", file |-> FALSE]

EndItem == [t |-> "end", name |-> "k", value |-> "", file |-> FALSE]

Methods == {"GET", "POST", "PUT"}

ContentTypes == {"", "application/x-www-form-urlencoded",
                 "multipart/form-data; boundary=x", "multipart/form-data"}

\* r.URL: nil, or a URL with its RawQuery.
URLs == {[nil |-> TRUE, RawQuery |-> <<>>]} \cup
        {[nil |-> FALSE, RawQuery |-> q] :
            q \in {<<>>, <<Pair("k", "q")>>, <<Pair("k", "q"), BadItem>>}}

\* r.Body: empty, url-encoded (the second with an invalid escape) or
\* multipart (the second with a malformed part).
Bodies == {<<>>,
           <<Pair("k", "b")>>,
           <<BadItem, Pair("k", "b")>>,
           <<Part("k", "b", FALSE), Part("j", "f", TRUE), EndItem>>,
           <<Part("k", "b", FALSE), BadItem, EndItem>>}

\* The cookies added: plain, with a line break in the name, with ';' in
\* the value.
Cookies == {[Name |-> <<110>>, Value |-> <<118>>],
            [Name |-> <<110, 10>>, Value |-> <<118>>],
            [Name |-> <<109>>, Value |-> <<97, 59, 98>>]}

\* A Request as the server hands it to a handler: nothing parsed yet and
\* no Cookie field.
NewRequest(method, url, ct, body) ==
    [Method |-> method, URL |-> url, Header |-> [ContentType |-> ct, Cookie |-> <<>>],
     Body |-> body, Form |-> NilValues, PostForm |-> NilValues, MultipartForm |-> NoForm]

\* The three forms of a Request.
Forms(r) == [Form |-> r.Form, PostForm |-> r.PostForm, MultipartForm |-> r.MultipartForm]

(* req holds the Request r, the body it came with, the cookies added to it *)
(* and the last form method called: its name, key, results, whether it     *)
(* read the body, the forms before it and the method called before it;     *)
(* mr, mrFresh and pmf tell whether MultipartReader, MultipartReader with  *)
(* no parsed form stored, and ParseMultipartForm have returned, and was    *)
(* holds these three as they were before the last call.                    *)
InitRequest ==
    /\ \E method \in Methods, url \in URLs, ct \in ContentTypes, body \in Bodies :
         req = [r |-> NewRequest(method, url, ct, body), body0 |-> body, added |-> <<>>,
                op |-> "none", prev |-> "none", key |-> "k", err |-> "", val |-> "",
                read |-> FALSE, before |-> Forms(NewRequest(method, url, ct, body)),
                mr |-> FALSE, mrFresh |-> FALSE, pmf |-> FALSE,
                was |-> [mr |-> FALSE, mrFresh |-> FALSE, pmf |-> FALSE]]
    /\ noop = NoNoop
    /\ c = NewCompressor(2) /\ d = NewDecompressor(2)
    /\ intSize = 64
    /\ mem = <<>>
    /\ wpc = [w \in Writers |-> "idle"]
    /\ warg = [w \in Writers |-> 1]
    /\ wres = [w \in Writers |-> NoCRes]
    /\ clog = <<>>
    /\ rpc = [r \in Readers |-> "idle"]
    /\ rarg = [r \in Readers |-> NoArg]
    /\ rres = [r \in Readers |-> NoDRes]
    /\ dlog = <<>>
    /\ fed = 0
    /\ calls = [c |-> 0, d |-> 0]

\* The form method op has been called with key and has returned p and val.
Returned(op, key, p, val) ==
    /\ req' = [r |-> p.r, body0 |-> req.body0, added |-> req.added,
               op |-> op, prev |-> req.op, key |-> key, err |-> p.err, val |-> val,
               read |-> p.read, before |-> Forms(req.r),
               mr |-> req.mr \/ op = "MultipartReader",
               mrFresh |-> req.mrFresh
                           \/ (op = "MultipartReader" /\ req.r.MultipartForm.kind # "form"),
               pmf |-> req.pmf \/ op = "ParseMultipartForm",
               was |-> [mr |-> req.mr, mrFresh |-> req.mrFresh, pmf |-> req.pmf]]
    /\ UNCHANGED <<codecVars, noop>>

CallParseForm == Returned("ParseForm", "k", ParseForm(req.r), "")

CallParseMultipartForm ==
    \E keep \in BOOLEAN :
        Returned("ParseMultipartForm", "k", ParseMultipartForm(req.r, keep), "")

CallMultipartReader == Returned("MultipartReader", "k", MultipartReader(req.r), "")

CallFormValue(key) ==
    \E keep \in BOOLEAN :
        Returned("FormValue", key, FormValue(req.r, key, keep), FormValue(req.r, key, keep).val)

CallFormFile(key) ==
    \E keep \in BOOLEAN :
        Returned("FormFile", key, FormFile(req.r, key, keep), FormFile(req.r, key, keep).val)

CallAddCookie(ck) ==
    /\ Len(req.added) < MaxCookies
    /\ req' = [req EXCEPT !.r = AddCookie(req.r, ck), !.added = Append(@, ck)]
    /\ UNCHANGED <<codecVars, noop>>

NextRequest ==
    \/ CallParseForm
    \/ CallParseMultipartForm
    \/ CallMultipartReader
    \/ \E key \in Keys : CallFormValue(key)
    \/ \E key \in Keys : CallFormFile(key)

SpecRequest == InitRequest /\ [][NextRequest]_vars

(* The form methods never write r.Header and AddCookie writes nothing      *)
(* else, so the cookies of a Request are followed in a specification of    *)
(* their own.                                                              *)
NextCookie == \E ck \in Cookies : CallAddCookie(ck)

SpecCookie == InitRequest /\ [][NextCookie]_vars


---------------------------------------------------------------------------
(* Properties of the Request, checked under SpecRequest; C16 is checked   *)
(* under SpecCookie.                                                       *)

MultipartMethods == {"MultipartReader", "ParseMultipartForm", "FormFile"}

(* C12, as stated: after any call to MultipartReader, whether it succeeded *)
(* or failed, every later call to MultipartReader, ParseMultipartForm and  *)
(* FormFile returns an error; and MultipartReader returns an error once    *)
(* ParseMultipartForm has stored a parsed form.                            *)
C12_AfterAnyMultipartReader ==
    /\ (req.was.mr /\ req.op \in MultipartMethods) => req.err # ""
    /\ (req.op = "MultipartReader" /\ req.before.MultipartForm.kind = "form") => req.err # ""

(* C12, amended: after any call to MultipartReader made while no parsed    *)
(* form was stored, whether it succeeded or failed, every later call to    *)
(* MultipartReader, ParseMultipartForm and FormFile returns an error; and  *)
(* MultipartReader returns an error once ParseMultipartForm has stored a   *)
(* parsed form.                                                            *)
C12_AfterFreshMultipartReader ==
    /\ (req.was.mrFresh /\ req.op \in MultipartMethods) => req.err # ""
    /\ (req.op = "MultipartReader" /\ req.before.MultipartForm.kind = "form") => req.err # ""

\* ParseMultipartForm has failed after a MultipartReader that failed on a
\* request that is not multipart.
C12_Witness ==
    /\ req.op = "ParseMultipartForm" /\ req.was.mrFresh /\ req.err # ""
    /\ multipartReader(req.r) = "ErrNotMultipart"

(* C13: after one ParseMultipartForm call has returned, with or without an *)
(* error, every later ParseMultipartForm call leaves Form, PostForm and    *)
(* MultipartForm unchanged.                                                *)
C13_LaterCallsNoEffect ==
    (req.op = "ParseMultipartForm" /\ req.was.pmf) => Forms(req.r) = req.before

(* C14: ParseForm is idempotent: a second consecutive call leaves Form and *)
(* PostForm as the first left them and does not read the body again.       *)
C14_ParseFormIdempotent ==
    (req.op = "ParseForm" /\ req.prev = "ParseForm")
        => /\ req.r.Form = req.before.Form
           /\ req.r.PostForm = req.before.PostForm
           /\ ~req.read

\* ParseForm has been called twice in a row on a POST whose url-encoded
\* body the first call parsed.
C14_Witness ==
    /\ req.op = "ParseForm" /\ req.prev = "ParseForm"
    /\ req.r.Method = "POST" /\ req.body0 # <<>> /\ req.r.Body = <<>>
    /\ LenValues(req.r.PostForm) > 0

\* The values a well-formed body of the request supplies.
BodyValues ==
    IF req.r.Header.ContentType = "application/x-www-form-urlencoded"
    THEN ParseQuery(req.body0).vals.m
    ELSE IF multipartReader(req.r) = "" /\ ReadFormFrom(EmptyForm, req.body0).err = ""
    THEN ReadFormFrom(EmptyForm, req.body0).f.Value
    ELSE [k \in Keys |-> <<>>]

\* The values the URL's query supplies.
QueryValues == NewValues(req.r).vals.m

(* C15: for a POST or PUT whose body, url-encoded or multipart, and whose  *)
(* URL query both supply a key, FormValue(key) returns the body's value.   *)
C15_BodyTakesPrecedence ==
    (/\ req.op = "FormValue" /\ req.prev = "none"
     /\ req.r.Method \in {"POST", "PUT"}
     /\ BodyValues[req.key] # <<>> /\ QueryValues[req.key] # <<>>)
        => req.val = Head(BodyValues[req.key])

\* The cookies as one field value: each as name=value, with the name and
\* value sanitized or as they were given, separated by "; ".
RECURSIVE CookieList(_, _)
CookieList(cks, sanitized) ==
    IF cks = <<>> THEN <<>>
    ELSE (IF sanitized THEN CookieString(Head(cks))
          ELSE Head(cks).Name \o <<61>> \o Head(cks).Value)
         \o (IF Len(cks) = 1 THEN <<>> ELSE <<59, 32>> \o CookieList(Tail(cks), sanitized))

(* C16, as stated: after any sequence of AddCookie calls on a Request that *)
(* had no Cookie field, the Header holds exactly one Cookie field value,   *)
(* which lists every added cookie as name=value in the order added,        *)
(* separated by "; ".                                                      *)
C16_OneFieldNameValue ==
    req.added # <<>> => req.r.Header.Cookie = <<CookieList(req.added, FALSE)>>

(* C16, amended: ... the Header holds exactly one Cookie field value,      *)
(* which lists every added cookie as sanitizeName(name)=sanitizeValue(     *)
(* value) in the order added, separated by "; ".                           *)
C16_OneFieldSanitized ==
    req.added # <<>> => req.r.Header.Cookie = <<CookieList(req.added, TRUE)>>

\* Two cookies have been added, one of them changed by the sanitizers.
C16_Witness ==
    /\ Len(req.added) = 2
    /\ req.r.Header.Cookie = <<CookieList(req.added, TRUE)>>
    /\ CookieList(req.added, TRUE) # CookieList(req.added, FALSE)

====
